---- MODULE Spec2Model ----
(***************************************************************************)
(* Model of paris.py: a pool (Manager) of worker threads that poll a       *)
(* shared queue.Queue and pass each File they get to the storage engine's  *)
(* upload_file, until a shared threading.Event (the cancellation token)    *)
(* is set.                                                                 *)
(*                                                                         *)
(* Threads are interleaved at the granularity of the statements of         *)
(* Worker.run; the host thread (the caller of register / prepare / start / *)
(* stop) is interleaved at the granularity of the loop bodies of the       *)
(* Manager methods.  Producers (queue.put) and the owner of the token      *)
(* (Event.set) may act at any time.                                        *)
(***************************************************************************)
EXTENDS Naturals, Sequences, FiniteSets

\* ------------------------------------------------------------- bounds
MaxTasks == 2        \* number of File objects ever put on the queue
MaxWorkers == 2      \* largest configured worker.threads
MaxThreadObjs == 2   \* number of threading.Thread objects ever created
MaxEngines == 2      \* number of StorageEngine objects
MaxRegs == 3         \* number of StorageFactory.register calls
MaxBuilds == 2       \* number of StorageFactory.build calls on their own
MaxPuts == 2         \* number of PropertiesConfig.put calls after construction

\* `int(self._config.get("worker.join.timeout") or 60)`: the default, and
\* the values the configuration may give: wait not at all, or wait.
DefaultJoinTimeout == 60
JoinTimeouts == {0, DefaultJoinTimeout}

VARIABLES
    queue,               \* queue.Queue: the Files waiting, oldest first
    pushed,              \* number of Files put so far (File k is the k-th put)
    cancellation_token,  \* threading.Event: TRUE when set
    options,             \* StorageFactory._options: the identifiers registered
    provider,            \* config "files.provider"
    client,              \* SimpleStorage._client: 0 is None, k > 0 the k-th client
    opens,               \* number of clients created by SimpleStorage.open
    numThreads,          \* Manager._number_of_threads
    joinTimeout,         \* Manager._join_timeout
    workers,             \* Manager._workers: the Thread objects, in order
    created,             \* number of Thread objects created so far
    threads,             \* per Thread object: position in Worker.run, item held
    uploads,             \* per File: the upload_file calls made with it on a client
    hostpc,              \* the Manager method the host thread is inside
    hi,                  \* the host's loop index in that method
    waited,              \* time the current Thread.join has waited so far
    lastOp,              \* the Manager method last entered
    lastErr,             \* how it ended: "none", or the exception raised
    \* StorageFactory and the storage engines, one by one (the pool above
    \* wires a single SimpleStorage):
    engines,             \* per StorageEngine object: identifier, client, opens
    optionsMap,          \* StorageFactory._options: identifier -> engine
    regLog,              \* the engines passed to register(), in order
    buildResult,         \* what the last build() returned or raised
    builds,              \* number of build() calls so far
    \* PropertiesConfig and File:
    conf,                \* PropertiesConfig._conf, the files.upload.* keys
    file,                \* the File object made, with its _filename
    atMake,              \* what File.bucket and File.key gave when it was made
    sent,                \* the Bucket and Key passed to the client
    puts                 \* number of config.put calls so far

coreVars == <<queue, pushed, cancellation_token, options, provider, client,
              opens, numThreads, joinTimeout, workers, created, threads,
              uploads, hostpc, hi, waited, lastOp, lastErr>>
registryVars == <<engines, optionsMap, regLog, buildResult, builds>>
fileVars == <<conf, file, atMake, sent, puts>>
vars == <<coreVars, registryVars, fileVars>>

hostVars == <<hostpc, hi, waited, lastOp, lastErr>>
poolVars == <<workers, created, numThreads, joinTimeout>>
backendVars == <<options, provider, client, opens>>

Tids == 1..MaxThreadObjs
Tasks == 1..MaxTasks
None == 0

\* The positions of a thread in Worker.run, from Thread.start to its end.
Running == {"check", "poll", "dispatch", "transfer", "sleep"}
Ended == {"stopped", "raised"}

\* SimpleStorage.identifier, and the identifier of another StorageEngine.
S3 == "s3"
Identifiers == {S3, "b"}
\* config.get("files.provider"): an identifier, or None when the key is absent.
Providers == Identifiers \cup {"none"}

\* A Thread object that has not been created / has been created by prepare().
\* (late: the gets the thread has made with the token already set, counted
\* as 0, 1 or 2 for more than one.)
NoThread == [pc |-> "none", item |-> None, handle |-> None,
             startTok |-> FALSE, observed |-> FALSE, late |-> 0]
NewThread == [pc |-> "new", item |-> None, handle |-> None,
              startTok |-> FALSE, observed |-> FALSE, late |-> 0]

\* No StorageEngine object, nothing registered, no build() call.
RegistryIdle ==
    /\ engines = <<>>
    /\ optionsMap = [i \in Identifiers |-> None]
    /\ regLog = <<>>
    /\ buildResult = [ret |-> None, err |-> "none"]
    /\ builds = 0

\* An empty configuration, no File.
\* The configuration keys a File of type "upload" reads; a key maps to <<>>
\* when it is not in the dict and to <<v>> when it holds the string v.
BucketKey == "files.upload.bucket"
PrefixKey == "files.upload.key"
ConfKeys == {BucketKey, PrefixKey}

FileIdle ==
    /\ conf = [k \in ConfKeys |-> <<>>]
    /\ file = <<>>
    /\ atMake = <<>>
    /\ sent = <<>>
    /\ puts = 0

CoreInit ==
    /\ queue = <<>>
    /\ pushed = 0
    /\ cancellation_token = FALSE
    /\ options = {}
    /\ provider \in Providers
    /\ client = None
    /\ opens = 0
    /\ numThreads \in 1..MaxWorkers
    /\ joinTimeout \in JoinTimeouts
    /\ workers = <<>>
    /\ created = 0
    /\ threads = [w \in Tids |-> NoThread]
    /\ uploads = [t \in Tasks |-> 0]
    /\ hostpc = "idle"
    /\ hi = 0
    /\ waited = 0
    /\ lastOp = "none"
    /\ lastErr = "none"

Init == CoreInit /\ RegistryIdle /\ FileIdle

\* ------------------------------------------------- producers, the token

\* queue.put(File(...)): always succeeds, enqueues at the tail.
Push ==
    /\ pushed < MaxTasks
    /\ queue' = Append(queue, pushed + 1)
    /\ pushed' = pushed + 1
    /\ UNCHANGED <<cancellation_token, threads, uploads>>
    /\ UNCHANGED <<hostVars, poolVars, backendVars, registryVars, fileVars>>

\* cancellation_token.set()
SetToken ==
    /\ cancellation_token' = TRUE
    /\ UNCHANGED <<queue, pushed, threads, uploads>>
    /\ UNCHANGED <<hostVars, poolVars, backendVars, registryVars, fileVars>>

\* ------------------------------------------------------------ Worker.run

WorkerFrame ==
    UNCHANGED <<pushed, hostVars, poolVars, backendVars, registryVars, fileVars>>

\* `while not self._cancellation_token.is_set()`: the check at the top of
\* every iteration; the loop, and with it the thread, ends when it is set.
CheckToken_Ignore(w) ==
    /\ threads[w].pc = "check"
    /\ threads' = [threads EXCEPT ![w].pc = "poll"]
    /\ UNCHANGED <<queue, cancellation_token, uploads>>
    /\ WorkerFrame

CheckToken(w) ==
    /\ threads[w].pc = "check"
    /\ threads' = [threads EXCEPT ![w].pc =
           IF cancellation_token THEN "stopped" ELSE "poll",
                                  ![w].observed = cancellation_token]
    /\ UNCHANGED <<queue, cancellation_token, uploads>>
    /\ WorkerFrame

\* The count of a thread's gets made with the token set, after one more get.
LateAfterGet(w) ==
    IF ~cancellation_token THEN threads[w].late
    ELSE IF threads[w].late = 0 THEN 1 ELSE 2

\* `item = self._worker_queue.get(block=False)`, queue.Empty giving None, and
\* the `if item:` that follows: a File is truthy, None is not.
Poll_Peek(w) ==
    /\ threads[w].pc = "poll"
    /\ IF queue = <<>>
       THEN threads' = [threads EXCEPT ![w].pc = "sleep", ![w].item = None,
                                       ![w].late = LateAfterGet(w)]
       ELSE threads' = [threads EXCEPT ![w].pc = "dispatch",
                                       ![w].item = Head(queue),
                                       ![w].late = LateAfterGet(w)]
    /\ UNCHANGED <<queue, cancellation_token, uploads>>
    /\ WorkerFrame

Poll_Drop(w) ==
    /\ threads[w].pc = "poll"
    /\ threads' = [threads EXCEPT ![w].pc = "sleep", ![w].item = None,
                                       ![w].late = LateAfterGet(w)]
    /\ queue' = IF queue = <<>> THEN queue ELSE Tail(queue)
    /\ UNCHANGED <<cancellation_token, uploads>>
    /\ WorkerFrame

Poll_Lifo(w) ==
    /\ threads[w].pc = "poll"
    /\ IF queue = <<>>
       THEN /\ threads' = [threads EXCEPT ![w].pc = "sleep", ![w].item = None,
                                       ![w].late = LateAfterGet(w)]
            /\ queue' = queue
       ELSE /\ threads' = [threads EXCEPT ![w].pc = "dispatch",
                                          ![w].item = queue[Len(queue)],
                                       ![w].late = LateAfterGet(w)]
            /\ queue' = SubSeq(queue, 1, Len(queue) - 1)
    /\ UNCHANGED <<cancellation_token, uploads>>
    /\ WorkerFrame

Poll_Serialized(w) ==
    /\ threads[w].pc = "poll"
    /\ \A v \in Tids \ {w} : threads[v].pc # "transfer"
    /\ IF queue = <<>>
       THEN /\ threads' = [threads EXCEPT ![w].pc = "sleep", ![w].item = None,
                                       ![w].late = LateAfterGet(w)]
            /\ queue' = queue
       ELSE /\ threads' = [threads EXCEPT ![w].pc = "dispatch",
                                          ![w].item = Head(queue),
                                       ![w].late = LateAfterGet(w)]
            /\ queue' = Tail(queue)
    /\ UNCHANGED <<cancellation_token, uploads>>
    /\ WorkerFrame

Poll(w) ==
    /\ threads[w].pc = "poll"
    /\ IF queue = <<>>
       THEN /\ threads' = [threads EXCEPT ![w].pc = "sleep", ![w].item = None,
                                       ![w].late = LateAfterGet(w)]
            /\ queue' = queue
       ELSE /\ threads' = [threads EXCEPT ![w].pc = "dispatch",
                                          ![w].item = Head(queue),
                                       ![w].late = LateAfterGet(w)]
            /\ queue' = Tail(queue)
    /\ UNCHANGED <<cancellation_token, uploads>>
    /\ WorkerFrame

\* `self._uploader.upload_file(item)` entering SimpleStorage.upload_file:
\* `self._client.upload_file(...)` raises AttributeError when _client is None,
\* and the exception, caught nowhere, ends run() and the thread.
UploadCall(w) ==
    /\ threads[w].pc = "dispatch"
    /\ IF client = None
       THEN /\ threads' = [threads EXCEPT ![w].pc = "raised"]
            /\ uploads' = uploads
       ELSE /\ threads' = [threads EXCEPT ![w].pc = "transfer",
                                          ![w].handle = client]
            /\ uploads' = [uploads EXCEPT ![threads[w].item] = @ + 1]
    /\ UNCHANGED <<queue, cancellation_token>>
    /\ WorkerFrame

\* The client's upload_file returns: the worker goes on to time.sleep.
\* (item is not read again before the next get assigns it: it is dropped here.)
TransferReturn_StopIfSet(w) ==
    /\ threads[w].pc = "transfer"
    /\ threads' = [threads EXCEPT ![w].pc =
           IF cancellation_token THEN "stopped" ELSE "sleep",
                                  ![w].item = None, ![w].handle = None]
    /\ UNCHANGED <<queue, cancellation_token, uploads>>
    /\ WorkerFrame

TransferReturn_Break(w) ==
    /\ threads[w].pc = "transfer"
    /\ threads' = [threads EXCEPT ![w].pc = "stopped",
                                  ![w].item = None, ![w].handle = None]
    /\ UNCHANGED <<queue, cancellation_token, uploads>>
    /\ WorkerFrame

TransferReturn(w) ==
    /\ threads[w].pc = "transfer"
    /\ threads' = [threads EXCEPT ![w].pc = "sleep",
                                  ![w].item = None, ![w].handle = None]
    /\ UNCHANGED <<queue, cancellation_token, uploads>>
    /\ WorkerFrame

\* The client's upload_file raises: run() has no handler, the exception
\* leaves the while loop and ends the thread.
TransferRaise(w) ==
    /\ threads[w].pc = "transfer"
    /\ threads' = [threads EXCEPT ![w].pc = "raised", ![w].handle = None]
    /\ UNCHANGED <<queue, cancellation_token, uploads>>
    /\ WorkerFrame

\* `time.sleep(self._timeout)` returns; back to the top of the loop.
Sleep_SkipCheck(w) ==
    /\ threads[w].pc = "sleep"
    /\ threads' = [threads EXCEPT ![w].pc = "poll"]
    /\ UNCHANGED <<queue, cancellation_token, uploads>>
    /\ WorkerFrame

Sleep(w) ==
    /\ threads[w].pc = "sleep"
    /\ threads' = [threads EXCEPT ![w].pc = "check"]
    /\ UNCHANGED <<queue, cancellation_token, uploads>>
    /\ WorkerFrame

\* ------------------------------------------------- StorageFactory, Manager

HostFrame ==
    UNCHANGED <<queue, pushed, cancellation_token, uploads, registryVars, fileVars>>

\* storage_factory.register(storage): _options[identifier] = storage_engine.
Register ==
    /\ hostpc = "idle"
    /\ options' = options \cup {S3}
    /\ UNCHANGED <<provider, client, opens, threads>>
    /\ UNCHANGED <<hostVars, poolVars>>
    /\ HostFrame

\* Manager.prepare, entered: `self._workers.clear()`.
PrepareBegin_ClearsToken ==
    /\ hostpc = "idle"
    /\ created + numThreads <= MaxThreadObjs
    /\ workers' = <<>>
    /\ hostpc' = "prepare"
    /\ hi' = 0
    /\ lastOp' = "prepare"
    /\ lastErr' = "none"
    /\ cancellation_token' = FALSE
    /\ UNCHANGED <<waited, created, numThreads, joinTimeout, threads>>
    /\ UNCHANGED backendVars
    /\ UNCHANGED <<queue, pushed, uploads, registryVars, fileVars>>

PrepareBegin_NoClear ==
    /\ hostpc = "idle"
    /\ created + numThreads <= MaxThreadObjs
    /\ hostpc' = "prepare"
    /\ hi' = 0
    /\ lastOp' = "prepare"
    /\ lastErr' = "none"
    /\ UNCHANGED <<workers, waited, created, numThreads, joinTimeout, threads>>
    /\ UNCHANGED backendVars
    /\ HostFrame

PrepareBegin ==
    /\ hostpc = "idle"
    /\ created + numThreads <= MaxThreadObjs
    /\ workers' = <<>>
    /\ hostpc' = "prepare"
    /\ hi' = 0
    /\ lastOp' = "prepare"
    /\ lastErr' = "none"
    /\ UNCHANGED <<waited, created, numThreads, joinTimeout, threads>>
    /\ UNCHANGED backendVars
    /\ HostFrame

\* One iteration of prepare's loop, up to the middle of SimpleStorage.open:
\* Worker.__init__ calls factory.build(), which looks up the configured
\* provider and either raises NotImplementedError or calls option.open(),
\* whose first statement, self.close(), closes the client and sets it to None.
Build ==
    /\ hostpc = "prepare"
    /\ hi < numThreads
    /\ IF provider \in options
       THEN /\ client' = None
            /\ hostpc' = "connect"
            /\ lastErr' = lastErr
       ELSE /\ client' = client
            /\ hostpc' = "idle"
            /\ lastErr' = "NotImplementedError"
    /\ UNCHANGED <<hi, waited, lastOp, options, provider, opens, threads>>
    /\ UNCHANGED poolVars
    /\ HostFrame

\* The rest of the iteration: open() assigns a new boto3 client, build()
\* returns, the Worker is made, and its Thread is created and appended.
Connect ==
    /\ hostpc = "connect"
    /\ opens' = opens + 1
    /\ client' = opens + 1
    /\ created' = created + 1
    /\ threads' = [threads EXCEPT ![created + 1] = NewThread]
    /\ workers' = Append(workers, created + 1)
    /\ hi' = hi + 1
    /\ hostpc' = "prepare"
    /\ UNCHANGED <<waited, lastOp, lastErr, options, provider,
                   numThreads, joinTimeout>>
    /\ HostFrame

\* prepare's loop is over.
PrepareReturn ==
    /\ hostpc = "prepare"
    /\ hi = numThreads
    /\ hostpc' = "idle"
    /\ UNCHANGED <<hi, waited, lastOp, lastErr, threads>>
    /\ UNCHANGED <<poolVars, backendVars>>
    /\ HostFrame

\* Manager.start, entered.
StartBegin ==
    /\ hostpc = "idle"
    /\ hostpc' = "start"
    /\ hi' = 1
    /\ lastOp' = "start"
    /\ lastErr' = "none"
    /\ UNCHANGED <<waited, threads>>
    /\ UNCHANGED <<poolVars, backendVars>>
    /\ HostFrame

\* `worker_thread.start()`: the thread begins Worker.run at the top of its
\* loop; Thread.start on a thread started before raises RuntimeError.
StartThread ==
    /\ hostpc = "start"
    /\ hi <= Len(workers)
    /\ IF threads[workers[hi]].pc = "new"
       THEN /\ threads' = [threads EXCEPT
                   ![workers[hi]].pc = "check",
                   ![workers[hi]].startTok = cancellation_token]
            /\ hi' = hi + 1
            /\ UNCHANGED <<hostpc, lastErr>>
       ELSE /\ hostpc' = "idle"
            /\ lastErr' = "RuntimeError"
            /\ UNCHANGED <<hi, threads>>
    /\ UNCHANGED <<waited, lastOp>>
    /\ UNCHANGED <<poolVars, backendVars>>
    /\ HostFrame

\* start's loop is over: start returns, the threads run on.
StartReturn ==
    /\ hostpc = "start"
    /\ hi > Len(workers)
    /\ hostpc' = "idle"
    /\ UNCHANGED <<hi, waited, lastOp, lastErr, threads>>
    /\ UNCHANGED <<poolVars, backendVars>>
    /\ HostFrame

\* Manager.stop, entered.
StopBegin_SetsToken ==
    /\ hostpc = "idle"
    /\ hostpc' = "stop"
    /\ hi' = 1
    /\ waited' = 0
    /\ lastOp' = "stop"
    /\ lastErr' = "none"
    /\ cancellation_token' = TRUE
    /\ UNCHANGED <<queue, pushed, uploads, threads>>
    /\ UNCHANGED <<poolVars, backendVars, registryVars, fileVars>>

StopBegin ==
    /\ hostpc = "idle"
    /\ hostpc' = "stop"
    /\ hi' = 1
    /\ waited' = 0
    /\ lastOp' = "stop"
    /\ lastErr' = "none"
    /\ UNCHANGED threads
    /\ UNCHANGED <<poolVars, backendVars>>
    /\ HostFrame

\* `worker_thread.join(timeout=self._join_timeout)`: raises RuntimeError on a
\* thread never started; returns at once when the thread has ended; otherwise
\* waits, and returns when the timeout has run out, whatever the thread does.
\* Time is not measured: a wait of the whole timeout is one step, and the
\* thread's steps before it are the ones interleaved with the host's.
JoinThread_RaiseOnTimeout ==
    /\ hostpc = "stop"
    /\ hi <= Len(workers)
    /\ IF threads[workers[hi]].pc = "new"
          \/ (threads[workers[hi]].pc \in Running /\ waited >= joinTimeout)
       THEN /\ hostpc' = "idle"
            /\ lastErr' = "RuntimeError"
            /\ UNCHANGED <<hi, waited>>
       ELSE IF threads[workers[hi]].pc \in Ended
       THEN /\ hi' = hi + 1
            /\ waited' = 0
            /\ UNCHANGED <<hostpc, lastErr>>
       ELSE /\ waited' = joinTimeout
            /\ UNCHANGED <<hostpc, hi, lastErr>>
    /\ UNCHANGED <<lastOp, threads>>
    /\ UNCHANGED <<poolVars, backendVars>>
    /\ HostFrame

JoinThread ==
    /\ hostpc = "stop"
    /\ hi <= Len(workers)
    /\ IF threads[workers[hi]].pc = "new"
       THEN /\ hostpc' = "idle"
            /\ lastErr' = "RuntimeError"
            /\ UNCHANGED <<hi, waited>>
       ELSE IF threads[workers[hi]].pc \in Ended \/ waited >= joinTimeout
       THEN /\ hi' = hi + 1
            /\ waited' = 0
            /\ UNCHANGED <<hostpc, lastErr>>
       ELSE /\ waited' = joinTimeout
            /\ UNCHANGED <<hostpc, hi, lastErr>>
    /\ UNCHANGED <<lastOp, threads>>
    /\ UNCHANGED <<poolVars, backendVars>>
    /\ HostFrame

\* stop's loop is over: stop returns.
StopReturn ==
    /\ hostpc = "stop"
    /\ hi > Len(workers)
    /\ hostpc' = "idle"
    /\ UNCHANGED <<hi, waited, lastOp, lastErr, threads>>
    /\ UNCHANGED <<poolVars, backendVars>>
    /\ HostFrame

\* ------------------------------------------------------- specifications

WorkerStep(w) ==
    \/ CheckToken(w)
    \/ Poll(w)
    \/ UploadCall(w)
    \/ TransferReturn(w)
    \/ Sleep(w)

\* Any order of the Manager's methods, any producer, a backend that may fail.
Next ==
    \/ Push
    \/ SetToken
    \/ Register
    \/ PrepareBegin
    \/ Build
    \/ Connect
    \/ PrepareReturn
    \/ StartBegin
    \/ StartThread
    \/ StartReturn
    \/ StopBegin
    \/ JoinThread
    \/ StopReturn
    \/ \E w \in Tids : WorkerStep(w)
    \/ \E w \in Tids : TransferRaise(w)

Spec == Init /\ [][Next]_vars

\* The Manager's methods in their order (prepare, start, then stop), and a
\* backend whose upload_file always returns.
NextOk ==
    \/ Push
    \/ SetToken
    \/ (lastOp = "none" /\ Register)
    \/ (lastOp = "none" /\ PrepareBegin)
    \/ Build
    \/ Connect
    \/ PrepareReturn
    \/ (lastOp = "prepare" /\ lastErr = "none" /\ StartBegin)
    \/ StartThread
    \/ StartReturn
    \/ (lastOp \in {"start", "stop"} /\ StopBegin)
    \/ JoinThread
    \/ StopReturn
    \/ \E w \in Tids : WorkerStep(w)

SpecOk == Init /\ [][NextOk]_vars

\* The threads are operating-system threads: each is scheduled again and
\* again, time.sleep returns, and (here) upload_file returns.
SpecLive == SpecOk /\ \A w \in Tids : WF_vars(WorkerStep(w))

\* The steps of Worker.run other than the return of upload_file.
WorkerOwnStep(w) ==
    \/ CheckToken(w)
    \/ Poll(w)
    \/ UploadCall(w)
    \/ Sleep(w)

\* The first Thread object is the one whose upload_file may take for ever.
SlowThread == 1

\* As SpecLive, but an upload_file call of the slow thread need never return:
\* every thread is scheduled again and again, and the upload_file calls of
\* the other threads return.
SpecSlow ==
    /\ SpecOk
    /\ \A w \in Tids : WF_vars(WorkerOwnStep(w))
    /\ \A w \in Tids \ {SlowThread} : WF_vars(TransferReturn(w))

\* The shutdown scenario: the Files are put, the pool is prepared and
\* started, the token is set once start has returned, and stop is called.
NextScenario ==
    \/ (lastOp = "none" /\ Push)
    \/ (lastOp = "start" /\ hostpc = "idle" /\ SetToken)
    \/ (lastOp = "none" /\ Register)
    \/ (lastOp = "none" /\ PrepareBegin)
    \/ Build
    \/ Connect
    \/ PrepareReturn
    \/ (lastOp = "prepare" /\ lastErr = "none" /\ StartBegin)
    \/ StartThread
    \/ StartReturn
    \/ (lastOp = "start" /\ cancellation_token /\ StopBegin)
    \/ JoinThread
    \/ StopReturn
    \/ \E w \in Tids : WorkerStep(w)

SpecScenario == Init /\ [][NextScenario]_vars

\* ---------------------------------------- StorageFactory on its own

\* StorageEngine objects with any identifiers, none of them open, and a
\* StorageFactory with nothing registered; no pool.
InitRegistry ==
    /\ CoreInit
    /\ numThreads = 1
    /\ joinTimeout = DefaultJoinTimeout
    /\ engines \in [1..MaxEngines ->
                      [identifier : Identifiers, client : {None}, opens : {0}]]
    /\ optionsMap = [i \in Identifiers |-> None]
    /\ regLog = <<>>
    /\ buildResult = [ret |-> None, err |-> "none"]
    /\ builds = 0
    /\ FileIdle

\* StorageFactory.register: `self._options[storage_engine.identifier] =
\* storage_engine`.
RegisterEngine_KeepFirst(e) ==
    /\ Len(regLog) < MaxRegs
    /\ optionsMap' = IF optionsMap[engines[e].identifier] = None
                     THEN [optionsMap EXCEPT ![engines[e].identifier] = e]
                     ELSE optionsMap
    /\ regLog' = Append(regLog, e)
    /\ UNCHANGED <<engines, buildResult, builds>>
    /\ UNCHANGED <<coreVars, fileVars>>

RegisterEngine(e) ==
    /\ Len(regLog) < MaxRegs
    /\ optionsMap' = [optionsMap EXCEPT ![engines[e].identifier] = e]
    /\ regLog' = Append(regLog, e)
    /\ UNCHANGED <<engines, buildResult, builds>>
    /\ UNCHANGED <<coreVars, fileVars>>

\* `self._options.get(storage_type)`: None for a key that is not there.
Lookup(storage_type) ==
    IF storage_type \in Identifiers THEN optionsMap[storage_type] ELSE None

\* StorageFactory.build: look the configured provider up; found, open() it
\* (close the client it has, make a new one) and return it; not found,
\* raise NotImplementedError.
BuildEngine_Fallback ==
    /\ builds < MaxBuilds
    /\ builds' = builds + 1
    /\ LET option == IF Lookup(provider) # None \/ regLog = <<>>
                     THEN Lookup(provider) ELSE regLog[1]
       IN  IF option # None
           THEN /\ engines' = [engines EXCEPT
                       ![option].client = engines[option].opens + 1,
                       ![option].opens = @ + 1]
                /\ buildResult' = [ret |-> option, err |-> "none"]
           ELSE /\ engines' = engines
                /\ buildResult' = [ret |-> None, err |-> "NotImplementedError"]
    /\ UNCHANGED <<optionsMap, regLog>>
    /\ UNCHANGED <<coreVars, fileVars>>

BuildEngine ==
    /\ builds < MaxBuilds
    /\ builds' = builds + 1
    /\ LET option == Lookup(provider)
       IN  IF option # None
           THEN /\ engines' = [engines EXCEPT
                       ![option].client = engines[option].opens + 1,
                       ![option].opens = @ + 1]
                /\ buildResult' = [ret |-> option, err |-> "none"]
           ELSE /\ engines' = engines
                /\ buildResult' = [ret |-> None, err |-> "NotImplementedError"]
    /\ UNCHANGED <<optionsMap, regLog>>
    /\ UNCHANGED <<coreVars, fileVars>>

NextRegistry ==
    \/ \E e \in 1..MaxEngines : RegisterEngine(e)
    \/ BuildEngine

SpecRegistry == InitRegistry /\ [][NextRegistry]_vars

\* ------------------------------------------------- File on its own

Buckets == {"bom", "alt"}
Prefixes == {"", "upload/", "alt/"}
Filenames == {"a.dat", "b.dat"}
ConfValues(k) == IF k = BucketKey THEN Buckets ELSE Prefixes

\* A PropertiesConfig with any of the two keys set or not; no File yet.
InitFile ==
    /\ CoreInit
    /\ numThreads = 1
    /\ joinTimeout = DefaultJoinTimeout
    /\ RegistryIdle
    /\ conf \in {c \in [ConfKeys -> {<<>>} \cup {<<v>> : v \in Buckets \cup Prefixes}] :
                   \A k \in ConfKeys : c[k] = <<>> \/ c[k][1] \in ConfValues(k)}
    /\ file = <<>>
    /\ atMake = <<>>
    /\ sent = <<>>
    /\ puts = 0

\* File.bucket: `self._config.get(confkey)`, None (<<>>) when not set.
bucket(c) == c[BucketKey]

\* File.key: the prefix, when there is a non-empty one, then the filename.
key(c, filename) ==
    IF c[PrefixKey] # <<>> /\ c[PrefixKey][1] # ""
    THEN c[PrefixKey][1] \o filename
    ELSE filename

\* PropertiesConfig.put: `self._conf[str(key)] = str(value)`.
ConfPut(k, v) ==
    /\ puts < MaxPuts
    /\ puts' = puts + 1
    /\ conf' = [conf EXCEPT ![k] = <<v>>]
    /\ UNCHANGED <<file, atMake, sent>>
    /\ UNCHANGED <<coreVars, registryVars>>

\* File(config, filepath, "upload", filename): keeps the config object and
\* the filename. atMake records what bucket and key are at this moment.
FileMake(filename) ==
    /\ file = <<>>
    /\ file' = <<filename>>
    /\ atMake' = <<[Bucket |-> bucket(conf), Key |-> key(conf, filename)]>>
    /\ UNCHANGED <<conf, sent, puts>>
    /\ UNCHANGED <<coreVars, registryVars>>

\* SimpleStorage.upload_file(file): reads file.bucket and file.key now and
\* passes them to the client.
FileUpload ==
    /\ file # <<>>
    /\ sent = <<>>
    /\ sent' = <<[Bucket |-> bucket(conf), Key |-> key(conf, file[1])]>>
    /\ UNCHANGED <<conf, file, atMake, puts>>
    /\ UNCHANGED <<coreVars, registryVars>>

NextFile ==
    \/ \E k \in ConfKeys : \E v \in ConfValues(k) : ConfPut(k, v)
    \/ \E f \in Filenames : FileMake(f)
    \/ FileUpload

SpecFile == InitFile /\ [][NextFile]_vars

\* ------------------------------------------------------------ properties

\* The number of upload_file calls made with File t.
Count(t) == uploads[t]
InQueue(t) == \E i \in 1..Len(queue) : queue[i] = t
Holders(t) == {w \in Tids : threads[w].item = t}
\* The Thread objects of Manager._workers.
Pool == {workers[i] : i \in 1..Len(workers)}
\* A step of the host inside Manager.stop: entering it, one join, returning.
StopStep ==
    \/ (hostpc = "idle" /\ hostpc' = "stop")
    \/ (hostpc = "stop" /\ hostVars' # hostVars)
\* The step with which Manager.stop returns normally.
StopReturns == hostpc = "stop" /\ hostpc' = "idle" /\ lastErr' = "none"

\* C1: no duplicate delivery. Every File put on the queue is passed to
\* upload_file at most once in total, is held by at most one worker, and is
\* no longer in the queue once a worker holds it or has uploaded it.
C1_NoDuplicateDelivery ==
    \A t \in 1..pushed :
        /\ Count(t) <= 1
        /\ Cardinality(Holders(t)) <= 1
        /\ InQueue(t) => (Count(t) = 0 /\ Holders(t) = {})
C1_Witness ==
    \E w, v \in Tids :
        /\ w # v
        /\ threads[w].pc = "transfer" /\ threads[v].pc = "sleep"
        /\ \A t \in 1..pushed : Count(t) = 1
        /\ pushed >= 2

\* C2: eventual delivery. With the Manager's methods called in order, an
\* upload_file that always returns and fair scheduling of the threads: a File
\* in the queue while some worker runs its loop is eventually passed to
\* upload_file, unless the cancellation token gets set.
C2_EventualDelivery ==
    \A t \in Tasks :
        (InQueue(t) /\ \E w \in Tids : threads[w].pc \in Running)
            ~> (Count(t) >= 1 \/ cancellation_token)
C2_Witness ==
    /\ ~cancellation_token
    /\ pushed >= 2
    /\ \A t \in 1..pushed : Count(t) = 1

\* C3 as stated: in the shutdown scenario, when stop() returns with every
\* worker of the pool joined, each File put has been passed to upload_file
\* exactly once.
C3_DrainOnShutdown ==
    [][(StopReturns /\ \A w \in Pool : threads'[w].pc \in Ended)
         => \A t \in 1..pushed : Count(t)' = 1]_vars
\* C3 amended: in the shutdown scenario, when stop() returns each File put
\* has been passed to upload_file at most once, and a File not passed to it
\* is still in the queue or in the hands of a worker not yet joined.
C3_NoLossOnShutdown ==
    [][StopReturns
         => \A t \in 1..pushed :
               /\ Count(t)' <= 1
               /\ Count(t)' = 0 =>
                    \/ InQueue(t)'
                    \/ \E w \in Pool : /\ threads'[w].item = t
                                       /\ threads'[w].pc = "dispatch"]_vars
C3_Witness ==
    /\ lastOp = "stop" /\ hostpc = "idle" /\ lastErr = "none"
    /\ cancellation_token
    /\ \A w \in Pool : threads[w].pc = "stopped"
    /\ \E t \in 1..pushed : Count(t) = 1
    /\ Len(queue) >= 1

\* C4: cooperative shutdown. Under fair scheduling and an upload_file that
\* returns, a worker running its loop when the token is set eventually
\* leaves the loop through the token check.
C4_CooperativeShutdown ==
    \A w \in Tids :
        (cancellation_token /\ threads[w].pc \in Running)
            ~> (threads[w].pc = "stopped")
C4_Witness ==
    /\ cancellation_token
    /\ Len(workers) >= 2
    /\ \A w \in Pool : threads[w].pc = "stopped"
    /\ \A t \in 1..pushed : Count(t) = 1
    /\ pushed >= 2

\* C5 as stated: a worker whose run loop has ended has seen the token set.
C5_EndsOnlyByToken ==
    \A w \in Tids : threads[w].pc \in Ended => threads[w].observed

\* C6 as stated: a worker that leaves upload_file, returned or raised, goes
\* on to its sleep and its next iteration, and the other workers stay where
\* they are.
C6_FailureLocality ==
    [][\A w \in Tids :
          (threads[w].pc \in {"dispatch", "transfer"}
           /\ threads'[w].pc \notin {"dispatch", "transfer"})
            => /\ threads'[w].pc = "sleep"
               /\ \A v \in Tids \ {w} : threads'[v] = threads[v]]_vars

\* C7: a worker started while the token is set is only ever at its first
\* token check or stopped, and holds no File; its step from the check ends
\* it; and no step it takes changes the queue or makes an upload_file call.
C7_StartedCancelled ==
    [][\A w \in Tids :
          threads'[w].startTok =>
             /\ threads'[w].pc \in {"check", "stopped"}
             /\ threads'[w].item = None
             /\ threads'[w] # threads[w] =>
                   /\ queue' = queue
                   /\ uploads' = uploads
                   /\ threads[w].pc = "check" => threads'[w].pc = "stopped"]_vars
C7_Witness ==
    \E w \in Tids :
        /\ threads[w].startTok
        /\ threads[w].pc = "stopped"
        /\ Len(queue) >= 1

\* C8: setting the token does not interrupt a worker. The step that sets it
\* moves no thread; a worker enters "stopped" only from the token check at
\* the top of an iteration, with the token set; a worker inside upload_file
\* leaves it only to its sleep (or by the exception upload_file raises), and
\* leaves its sleep only to the token check.
C8_NoInterrupt ==
    [][/\ (cancellation_token' # cancellation_token) => threads' = threads
       /\ \A w \in Tids :
            /\ (threads'[w].pc = "stopped" /\ threads[w].pc # "stopped")
                 => (threads[w].pc = "check" /\ cancellation_token)
            /\ (threads[w].pc = "transfer" /\ threads'[w].pc # "transfer")
                 => threads'[w].pc \in {"sleep", "raised"}
            /\ (threads[w].pc = "sleep" /\ threads'[w].pc # "sleep")
                 => threads'[w].pc = "check"]_vars
C8_Witness ==
    \E w \in Tids :
        /\ cancellation_token
        /\ ~threads[w].startTok
        /\ threads[w].pc = "transfer"

\* C9: no step of stop() changes the token, and when stop() returns with the
\* token still clear no worker of the pool has left its loop through the
\* token check: each is inside its loop, unless an exception ended it.
C9_StopLeavesToken ==
    [][/\ StopStep => cancellation_token' = cancellation_token
       /\ (StopReturns /\ ~cancellation_token') =>
             \A w \in Pool : threads'[w].pc \in Running \cup {"raised"}]_vars
C9_Witness ==
    /\ lastOp = "stop" /\ hostpc = "idle" /\ lastErr = "none"
    /\ ~cancellation_token
    /\ Len(workers) >= 2
    /\ \A w \in Pool : threads[w].pc \in Running

\* C10 as stated: whatever the state of the workers, stop() moves no thread
\* and ends without raising.
C10_StopNeverRaises ==
    [][StopStep =>
          /\ threads' = threads
          /\ (hostpc' = "idle" => lastErr' = "none")]_vars
\* C10 amended: stop() moves no thread, and it ends without raising when
\* every thread of the pool has been started (Thread.join raises
\* RuntimeError on a thread that was never started).
C10_BestEffortJoin ==
    [][StopStep =>
          /\ threads' = threads
          /\ (hostpc' = "idle" /\ \A w \in Pool : threads[w].pc # "new")
                => lastErr' = "none"]_vars
C10_Witness ==
    /\ lastOp = "stop" /\ hostpc = "idle" /\ lastErr = "none"
    /\ joinTimeout = 0
    /\ \E w \in Pool : threads[w].pc = "transfer"

\* A step of the host inside Manager.prepare.
PrepareStep ==
    \/ (hostpc = "idle" /\ hostpc' = "prepare")
    \/ (hostpc \in {"prepare", "connect"} /\ hostVars' # hostVars)
\* A step of the host inside Manager.start.
StartStep ==
    \/ (hostpc = "idle" /\ hostpc' = "start")
    \/ (hostpc = "start" /\ hostVars' # hostVars)
\* A step of a worker thread in Worker.run.
RunStep ==
    \E w \in Tids : threads[w].pc \in Running /\ threads'[w] # threads[w]

\* C11: the token is monotonic. No step clears it, and in particular no
\* step of a worker and no step of prepare(), start() or stop() changes it.
C11_TokenMonotonic ==
    [][/\ cancellation_token => cancellation_token'
       /\ (RunStep \/ PrepareStep \/ StartStep \/ StopStep)
             => cancellation_token' = cancellation_token]_vars
C11_Witness ==
    /\ cancellation_token
    /\ created = 2
    /\ lastOp = "stop" /\ hostpc = "idle"
    /\ \E w \in Tids : threads[w].pc = "stopped"

\* C12 as stated: one prepare() opens the backend exactly once, whatever
\* numThreads is: a new client is made when prepare builds its first worker,
\* and by no later step of that prepare.
C12_OpenOncePerPrepare ==
    [][PrepareStep => (opens' # opens <=> (hostpc = "connect" /\ hi = 0))]_vars

\* C13: once a prepare() has returned, the pool holds exactly numThreads
\* Thread objects, all different, however many prepare() calls came before.
C13_PoolSize ==
    (hostpc \notin {"prepare", "connect"} /\ lastErr # "NotImplementedError"
     /\ created > 0)
        => /\ Len(workers) = numThreads
           /\ Cardinality(Pool) = numThreads
C13_Witness ==
    /\ hostpc = "idle"
    /\ lastOp = "prepare"
    /\ created = 2 * numThreads
    /\ Len(workers) = numThreads

\* C16 as stated: a worker inside upload_file is there on the client that is
\* open now: the handle is neither closed nor replaced under it.
C16_TransferOnOpenHandle ==
    \A w \in Tids :
        threads[w].pc = "transfer" =>
            (client # None /\ threads[w].handle = client)

\* C19: Files leave the queue in the order they were put: a get takes File t
\* only when every File put before t has left the queue; and while one
\* Thread object is all there is, upload_file is called with File t only
\* after it was called with every File put before t.
C19_Fifo ==
    [][/\ \A w \in Tids :
            (threads[w].pc = "poll" /\ threads'[w].pc = "dispatch") =>
               /\ threads'[w].item = Head(queue)
               /\ \A t \in 1..pushed :
                     t < threads'[w].item => ~InQueue(t)
       /\ \A t \in 1..pushed :
            (Count(t)' # Count(t) /\ created = 1) =>
               \A u \in 1..pushed : u < t => Count(u) >= 1]_vars
C19_Witness ==
    /\ created = 1
    /\ pushed >= 2
    /\ \A t \in 1..pushed : Count(t) = 1

\* C20: with the Manager's methods called in order, a worker makes at most
\* one get with the token set, so at most numThreads gets are made with it
\* set; and once every worker of the pool has stopped, no File leaves the
\* queue and no upload_file call is made.
C20_BoundedWorkAfterCancel ==
    [][/\ \A w \in Tids : threads'[w].late <= 1
       /\ Cardinality({w \in Tids : threads'[w].late >= 1}) <= numThreads
       /\ (Pool # {} /\ \A w \in Pool : threads[w].pc = "stopped") =>
             /\ uploads' = uploads
             /\ \A t \in 1..pushed : InQueue(t) => InQueue(t)']_vars
C20_Witness ==
    /\ cancellation_token
    /\ Pool # {} /\ \A w \in Pool : threads[w].pc = "stopped"
    /\ \E w \in Pool : threads[w].late = 1
    /\ Count(1) = 1
    /\ InQueue(2)

\* C18: a slow transfer blocks only its own worker. Although the slow
\* thread's upload_file need never return, a File in the queue while another
\* worker runs its loop is eventually passed to upload_file, unless the token
\* gets set: no worker waits for another.
C18_SlowTransferIsLocal ==
    \A t \in Tasks :
        (InQueue(t) /\ \E w \in Tids \ {SlowThread} : threads[w].pc \in Running)
            ~> (Count(t) >= 1 \/ cancellation_token)
C18_Witness ==
    /\ ~cancellation_token
    /\ threads[SlowThread].pc = "transfer"
    /\ threads[SlowThread].item = 1
    /\ \E w \in Tids \ {SlowThread} : threads[w].pc = "sleep"
    /\ Count(2) = 1

\* The engine most recently passed to register() with the identifier given,
\* None when there is none.
RECURSIVE MostRecent(_, _)
MostRecent(log, identifier) ==
    IF log = <<>> THEN None
    ELSE IF engines[log[Len(log)]].identifier = identifier
         THEN log[Len(log)]
         ELSE MostRecent(SubSeq(log, 1, Len(log) - 1), identifier)
\* A build() call.
BuildStep == builds' = builds + 1

\* C14: a build() with no engine registered under the configured provider
\* raises (NotImplementedError, the source's unsupported-backend error),
\* returns no engine, and opens no engine: every client and every count of
\* opens is as before.
C14_BuildUnregistered ==
    [][(BuildStep /\ MostRecent(regLog, provider) = None) =>
          /\ buildResult'.err = "NotImplementedError"
          /\ buildResult'.ret = None
          /\ engines' = engines]_vars
C14_Witness ==
    /\ buildResult.err = "NotImplementedError"
    /\ provider \in Identifiers
    /\ regLog # <<>>
    /\ \A e \in 1..MaxEngines : engines[e].opens = 0

\* C15: a build() with an engine registered under the configured provider
\* returns the engine most recently registered under that identifier, does
\* not raise, opens that engine exactly once and opens no other engine.
C15_BuildSelects ==
    [][(BuildStep /\ MostRecent(regLog, provider) # None) =>
          LET e == MostRecent(regLog, provider)
          IN  /\ buildResult' = [ret |-> e, err |-> "none"]
              /\ engines'[e].opens = engines[e].opens + 1
              /\ engines'[e].client # None
              /\ \A o \in 1..MaxEngines : o # e => engines'[o] = engines[o]]_vars
C15_Witness ==
    /\ Len(regLog) >= 2
    /\ buildResult.ret # None
    /\ buildResult.ret = regLog[Len(regLog)]
    /\ regLog[1] # buildResult.ret
    /\ engines[regLog[1]].identifier = provider
    /\ engines[regLog[1]].opens = 0
    /\ engines[buildResult.ret].opens = 1

\* C17: a File is transferred to the bucket and the key it had when it was
\* constructed, whatever put() calls were made on the configuration since.
C17_TaskImmutable == sent # <<>> => sent = atMake

====
